---------------------------- MODULE Spec2Model ----------------------------
(***************************************************************************)
(* A model of the danmaku backend (src/backend/app.py, src/backend/utils.py)*)
(* as a state machine: the token table, the per-token rate limiter, the     *)
(* bounded message store, the SSE subscriber registry with its bounded      *)
(* queues, startup recovery from the durable table, and the moderation     *)
(* endpoints.                                                               *)
(*                                                                         *)
(* Scheduling.  Every `async def` handler runs on the single asyncio event  *)
(* loop.  `_sub_lock` is never held across an await, so acquiring it never  *)
(* suspends; the DynamoDB helpers are synchronous calls.  A handler         *)
(* therefore runs without interleaving of other handlers, and the only      *)
(* place where it can stay for an unbounded time is inside a durable       *)
(* call, during which the whole event loop is blocked.  The model splits a  *)
(* handler at exactly these calls: the variable `call` holds the           *)
(* continuation of the handler that is inside a durable call.  The plain   *)
(* `def` endpoint list_messages runs in a threadpool thread, next to the   *)
(* event loop: the variable `lister` holds where its loop stands.          *)
(*                                                                         *)
(* Scaling.  The program constants are scaled down (500 -> 2 messages,     *)
(* 1000 -> 3 recovered records, 200 -> 2 queue slots, 86400 s -> 2 ticks,   *)
(* 300 s -> 1 tick); their order relations are those of the source:        *)
(* RECOVER_LIMIT > MAX_IN_MEMORY and TOKEN_TTL_SECONDS < RATE_LIMIT_PERIOD. *)
(* MAX_POSTS_PER_TOKEN keeps its value, 5.                                  *)
(***************************************************************************)
EXTENDS Integers, Sequences, FiniteSets, TLC

\* ------------------------------------------------------------------------
\* Program constants (app.py:26-30, 317), scaled as said above.
TOKEN_TTL_SECONDS == 1
MAX_IN_MEMORY == 2
RECOVER_LIMIT == 3
MAX_POSTS_PER_TOKEN == 5
RATE_LIMIT_PERIOD == 2
QUEUE_MAXSIZE == 2

\* ------------------------------------------------------------------------
\* Bounds of the model.
\* The clock runs from Now0 to Now0 + MaxTicks.
MaxTicks == 2
\* The durable table holds at most MaxScan items at startup.
MaxScan == 4
\* The id alphabet: gen_id8 draws from 1..NumIds.
NumIds == 4

\* The process starts long after the epoch: now_ts() >= RATE_LIMIT_PERIOD.
Now0 == RATE_LIMIT_PERIOD
Tokens == {"t1", "t2"}
Subs == {"q1", "q2"}
Ids == 1..NumIds
\* Contents after clean_text; "" is what a blank payload strips to.
Contents == {"hi", "yo"}

VARIABLES
    phase,              \* "boot" | "recovered" | "skipped": lifespan's outcome
    now,                \* now_ts(), in ticks
    ddb_items,          \* what t.scan() returns at startup, in scan order
    tokens,             \* _tokens: token -> expire_ts (0: absent)
    token_counter,      \* _token_counter: token -> count (get(token, 0))
    token_last_reset,   \* _token_last_reset: token -> ts (get(token, 0))
    messages,           \* _messages: id -> its dict (NoMsg: absent)
    order,              \* _order
    subscribers,        \* _subscribers
    queue,              \* the asyncio.Queue of each /events request
    gen,                \* where each request's generator gen() stands
    conn,               \* the client side of each /events connection
    call,               \* the handler inside a durable call (event loop blocked)
    lister,             \* the threadpool thread that runs list_messages
    last,               \* what the last step sent: a response, a broadcast
    hist                \* history: what the properties below refer to

vars == <<phase, now, ddb_items, tokens, token_counter, token_last_reset,
          messages, order, subscribers, queue, gen, conn, call, lister, last, hist>>

\* ------------------------------------------------------------------------
\* Helpers.
NoMsg == [id |-> 0, content |-> "", ts |-> 0]
\* A queued payload {"event": ..., "data": ...}.  The data of a "message"
\* event is the message dict itself, not a copy: while that dict is the one
\* _messages holds for its id (live), the payload shows what the store
\* shows; once the store has dropped the dict, msg is the dict.
NoEvent == [event |-> "", id |-> 0, live |-> FALSE, msg |-> NoMsg]
\* No handler is inside a durable call.
NoCall == [op |-> "", token |-> "", event |-> NoEvent, rest |-> <<>>, results |-> <<>>]
\* No list_messages call is running.
\*   pc     "idle" | "iter" (at the head of the for loop) | "got" (an id was
\*          taken from _order) | "done" (the loop is over)
\*   idx    the index of the list iterator over _order
\*   mid    the id the iterator returned
\*   items  the ids of the messages collected so far
NoList == [pc |-> "idle", idx |-> 0, mid |-> 0, items |-> <<>>]
\* A step that answers no request (status 0) and broadcasts nothing.
\*   nth    for a post: which post with this token it is (history)
\*   event  the event the step broadcast
\*   ddb    how the durable call that the step resumes from ended
NoLast == [op |-> "", token |-> "", status |-> 0, remaining |-> -1, results |-> <<>>,
           nth |-> 0, event |-> NoEvent, ddb |-> ""]

Range(s) == {s[i] : i \in 1..Len(s)}
Max(a, b) == IF a >= b THEN a ELSE b
Min(a, b) == IF a <= b THEN a ELSE b
Front(s) == SubSeq(s, 1, Len(s) - 1)
Last(s) == s[Len(s)]
\* list.remove(x): removes the first occurrence.
RECURSIVE ListRemove(_, _)
ListRemove(s, x) ==
    IF s = <<>> THEN <<>>
    ELSE IF Head(s) = x THEN Tail(s)
    ELSE <<Head(s)>> \o ListRemove(Tail(s), x)

\* utils.now_ms
now_ms == now * 1000

\* list_messages (app.py:230-237): the messages of _order that _messages
\* holds, in that order.
Present(m) == m # NoMsg
list_messages == SelectSeq([k \in 1..Len(order) |-> messages[order[k]]], Present)

\* set(_messages.keys())
LiveIds == {i \in Ids : messages[i] # NoMsg}

\* ------------------------------------------------------------------------
\* Message dicts shared between the store and the queued payloads.
MessageEvent(mid) == [event |-> "message", id |-> mid, live |-> TRUE, msg |-> NoMsg]
DeleteEvent(mid) == [event |-> "delete", id |-> mid, live |-> FALSE, msg |-> NoMsg]

\* What a payload shows when it is read (json.dumps in utils.sse).
Data(ev, m) == IF ev.live THEN m[ev.id] ELSE ev.msg

\* The store drops the dict of mid (a pop): the payloads that hold the dict
\* keep it.
DetachEvent(ev, mid, m) ==
    IF ev.live /\ ev.id = mid THEN [ev EXCEPT !.live = FALSE, !.msg = m[mid]] ELSE ev

\* A store that also queues a "delete" event for every dict it drops (a
\* fault C20 must detect).
DetachAnnouncing(q, mid, m) ==
    [s \in Subs |->
        IF s \in subscribers
        THEN Append([k \in 1..Len(q[s]) |-> DetachEvent(q[s][k], mid, m)],
                    DeleteEvent(mid))
        ELSE [k \in 1..Len(q[s]) |-> DetachEvent(q[s][k], mid, m)]]

Detach(q, mid, m) ==
    [s \in Subs |-> [k \in 1..Len(q[s]) |-> DetachEvent(q[s][k], mid, m)]]

\* ------------------------------------------------------------------------
\* Token authority (app.py:55-62, 223-227).
\* require_auth: the token of a request is valid.
AuthOk(tok, t) == tokens[tok] # 0 /\ ~(tokens[tok] < t)

\* ------------------------------------------------------------------------
\* A limiter whose window ends one second late (a fault C14 must detect).
check_and_update_token_limit_late(count, last_reset, t) ==
    IF t - last_reset > RATE_LIMIT_PERIOD
    THEN [ok |-> TRUE, count |-> 0, last_reset |-> t]
    ELSE IF count >= MAX_POSTS_PER_TOKEN
    THEN [ok |-> FALSE, count |-> count, last_reset |-> last_reset]
    ELSE [ok |-> TRUE, count |-> count + 1, last_reset |-> last_reset]

\* Rate limiter (app.py:77-101), as functions of a token's record and now.
check_and_update_token_limit(count, last_reset, t) ==
    IF t - last_reset >= RATE_LIMIT_PERIOD
    THEN [ok |-> TRUE, count |-> 0, last_reset |-> t]
    ELSE IF count >= MAX_POSTS_PER_TOKEN
    THEN [ok |-> FALSE, count |-> count, last_reset |-> last_reset]
    ELSE [ok |-> TRUE, count |-> count + 1, last_reset |-> last_reset]

get_token_remaining(count, last_reset, t) ==
    IF t - last_reset >= RATE_LIMIT_PERIOD
    THEN MAX_POSTS_PER_TOKEN
    ELSE Max(0, MAX_POSTS_PER_TOKEN - count)

\* ------------------------------------------------------------------------
\* Message store.
\* A gen_id8 without the resampling loop: any id (a fault C6 must detect).
gen_id8_unchecked(existing) == Ids

\* utils.gen_id8: the ids the resampling loop can return.
gen_id8(existing) == Ids \ existing

\* An overflow check that is off by one (a fault C5 must detect).
OverflowsLate(ord) == Len(ord) > MAX_IN_MEMORY + 1

\* app.py:285-287: the overflow check after an append.
Overflows(ord) == Len(ord) > MAX_IN_MEMORY

\* A _delete_local that reports and removes nothing (a fault C11 must detect).
delete_local_reporting(m, ord, mid) ==
    [existed |-> m[mid] # NoMsg, messages |-> m, order |-> ord]

\* A _delete_local that removes and always reports True (a fault C12 must
\* detect).
delete_local_blind(m, ord, mid) ==
    [existed |-> TRUE, messages |-> [m EXCEPT ![mid] = NoMsg],
     order |-> ListRemove(ord, mid)]

\* A _delete_local without _order.remove (a fault C13 must detect).
delete_local_keeping_order(m, ord, mid) ==
    [existed |-> m[mid] # NoMsg, messages |-> [m EXCEPT ![mid] = NoMsg],
     order |-> ord]

\* app.py:207-215: _delete_local, on (messages, order).
delete_local(m, ord, mid) ==
    IF m[mid] # NoMsg
    THEN [existed |-> TRUE, messages |-> [m EXCEPT ![mid] = NoMsg],
          order |-> ListRemove(ord, mid)]
    ELSE [existed |-> FALSE, messages |-> m, order |-> ord]

\* ------------------------------------------------------------------------
\* Broadcast hub (app.py:118-128).
\* put_nowait raises QueueFull.
QueueFull(q) == Len(q) >= QUEUE_MAXSIZE

\* A broadcast that keeps the subscribers it found full (a fault C2 must
\* detect).
broadcast_keeping(ev, subs, q) ==
    [subscribers |-> subs,
     queue |-> [s \in Subs |->
                  IF s \in subs /\ ~QueueFull(q[s]) THEN Append(q[s], ev)
                  ELSE q[s]]]

broadcast(ev, subs, q) ==
    LET dead == {s \in subs : QueueFull(q[s])}
    IN  [subscribers |-> subs \ dead,
         queue |-> [s \in Subs |->
                      IF s \in subs /\ ~QueueFull(q[s]) THEN Append(q[s], ev)
                      ELSE q[s]]]

\* ------------------------------------------------------------------------
\* Recovery (app.py:157-188).
\* items.sort(key=ts): a stable sort, here by insertion.
RECURSIVE InsertByTs(_, _)
InsertByTs(s, x) ==
    IF s = <<>> THEN <<x>>
    ELSE IF Last(s).ts <= x.ts THEN Append(s, x)
    ELSE Append(InsertByTs(Front(s), x), Last(s))

RECURSIVE SortByTs(_)
SortByTs(s) ==
    IF s = <<>> THEN <<>> ELSE InsertByTs(SortByTs(Front(s)), Last(s))

\* items[:RECOVER_LIMIT], the oldest instead of the newest (a fault C7 must
\* detect).
FirstN(s, n) == IF Len(s) <= n THEN s ELSE SubSeq(s, 1, n)

\* items[-RECOVER_LIMIT:]
LastN(s, n) == IF Len(s) <= n THEN s ELSE SubSeq(s, Len(s) - n + 1, Len(s))

NotDeleted(x) == ~x.deleted

ddb_recover(items) == LastN(SortByTs(SelectSeq(items, NotDeleted)), RECOVER_LIMIT)

\* The durable tables the model starts from: at most MaxScan items with the
\* ids 1, 2, ... in scan order (DynamoDB keys items by id, so ids differ).
ScanTs == {1000, 2000}
Tables ==
    UNION {[1..n -> [ts : ScanTs, deleted : BOOLEAN]] : n \in 0..MaxScan}

TableItems(f) ==
    [i \in 1..Len(f) |->
        [id |-> i, content |-> "hi", ts |-> f[i].ts, deleted |-> f[i].deleted]]

\* The tables the full specification starts from: no table (or an empty one),
\* and a table with more live items than RECOVER_LIMIT.
SpecTables ==
    {f \in Tables : /\ Len(f) \in {0, MaxScan}
                    /\ \A i \in 1..Len(f) : ~f[i].deleted /\ f[i].ts = 1000}

\* app.py:179-183: the loop that seeds _messages and _order.
SeedMessages(rec) ==
    [i \in Ids |->
        IF \E r \in 1..Len(rec) : rec[r].id = i
        THEN LET r == CHOOSE r \in 1..Len(rec) :
                        rec[r].id = i /\ \A r2 \in (r + 1)..Len(rec) : rec[r2].id # i
             IN  [id |-> i, content |-> rec[r].content, ts |-> rec[r].ts]
        ELSE NoMsg]

SeedOrder(rec) == [r \in 1..Len(rec) |-> rec[r].id]

\* ------------------------------------------------------------------------
\* History: what the properties are stated about, never read by the program.
\*   admitted[t] posts admitted in t's current window, the admission that
\*               started the window included
\*   tried[t]    ordinary posts that reached the limiter with token t
\*   appended    the ids appended since startup, oldest first, kept while
\*               logged: until a delete removes a message or more than
\*               MaxLog ids were appended
\*   seen        the values _order had since the running list_messages call
\*               began
MaxLog == 3
NoHist ==
    [admitted |-> [t \in Tokens |-> 0], tried |-> [t \in Tokens |-> 0],
     appended |-> <<>>, logged |-> TRUE, seen |-> {}]

\* The history after a handler left _order as ord.
Observe(h, ord) ==
    IF lister.pc # "idle" THEN [h EXCEPT !.seen = @ \cup {ord}] ELSE h

\* The history after a _delete_local that found its message.
Unlog(h, existed) ==
    IF existed THEN [h EXCEPT !.appended = <<>>, !.logged = FALSE] ELSE h

InitWith(tables) ==
    /\ phase = "boot"
    /\ now = Now0
    /\ ddb_items \in {TableItems(f) : f \in tables}
    /\ tokens = [t \in Tokens |-> 0]
    /\ token_counter = [t \in Tokens |-> 0]
    /\ token_last_reset = [t \in Tokens |-> 0]
    /\ messages = [i \in Ids |-> NoMsg]
    /\ order = <<>>
    /\ subscribers = {}
    /\ queue = [s \in Subs |-> <<>>]
    /\ gen = [s \in Subs |-> "none"]
    /\ conn = [s \in Subs |-> "none"]
    /\ call = NoCall
    /\ lister = NoList
    /\ last = NoLast
    /\ hist = NoHist

Init == InitWith(SpecTables)

Serving == phase # "boot"
\* An event loop that takes the next request while a handler is inside its
\* durable call, as if the call were awaited (a fault C19 must detect).
LoopYields == Serving
LoopFree == Serving /\ call = NoCall

\* ------------------------------------------------------------------------
\* lifespan (app.py:173-188): outcome "raise" is ddb_recover raising.
Lifespan(outcome) ==
    /\ phase = "boot"
    /\ IF outcome = "ok"
       THEN LET recovered == ddb_recover(ddb_items)
            IN  /\ messages' = SeedMessages(recovered)
                /\ order' = SeedOrder(recovered)
                /\ phase' = "recovered"
       ELSE /\ phase' = "skipped"
            /\ UNCHANGED <<messages, order>>
    /\ UNCHANGED <<now, ddb_items, lister, tokens, token_counter, token_last_reset,
                   subscribers, queue, gen, conn, call, hist>>
    /\ last' = NoLast

\* Time passes (utils.now_ts), also while the event loop is blocked.
Tick ==
    /\ now < Now0 + MaxTicks
    /\ now' = now + 1
    /\ UNCHANGED <<phase, ddb_items, lister, tokens, token_counter, token_last_reset,
                   messages, order, subscribers, queue, gen, conn, call, hist>>
    /\ last' = NoLast

\* issue_token (app.py:223-227); make_token returns a token never seen before.
IssueToken(tok) ==
    /\ LoopFree
    /\ tokens[tok] = 0
    /\ tokens' = [tokens EXCEPT ![tok] = now + TOKEN_TTL_SECONDS]
    /\ last' = [NoLast EXCEPT !.op = "token", !.token = tok, !.status = 200]
    /\ UNCHANGED <<phase, now, ddb_items, lister, token_counter, token_last_reset,
                   messages, order, subscribers, queue, gen, conn, call, hist>>

\* ------------------------------------------------------------------------
\* Requests.
\* A POST /messages payload after clean_text: a text ("" for a blank one), or
\* a "!delete ..." command with the ids parse_delete_ids finds in it.
MaxCmdIds == 2
IdLists ==
    {l \in UNION {[1..n -> Ids] : n \in 0..MaxCmdIds} :
        \A i, j \in 1..Len(l) : i # j => l[i] # l[j]}
Payloads ==
    {[content |-> c, ids |-> <<>>] : c \in Contents \cup {""}}
      \cup {[content |-> "!delete", ids |-> l] : l \in IdLists}

Reply(op, tok, status) == [NoLast EXCEPT !.op = op, !.token = tok, !.status = status]

\* A request that is refused before it changes anything.
Refuse(op, tok, status) ==
    /\ last' = Reply(op, tok, status)
    /\ UNCHANGED <<phase, now, ddb_items, lister, tokens, token_counter, token_last_reset,
                   messages, order, subscribers, queue, gen, conn, call, hist>>

\* delete_message / admin_delete_message up to the durable call
\* (app.py:304-307, 382-385), and one round of the loops of
\* admin_batch_delete (app.py:406-409) and of the "!delete" command
\* (app.py:259-260).
StartDelete(op, tok, mid, rest, results) ==
    LET d == delete_local(messages, order, mid)
    IN  /\ messages' = d.messages
        /\ order' = d.order
        /\ call' = [op |-> op, token |-> tok, event |-> DeleteEvent(mid),
                    rest |-> rest, results |-> Append(results, d.existed)]
        /\ queue' = Detach(queue, mid, messages)
        /\ hist' = Observe(Unlog(hist, d.existed), d.order)
        /\ last' = NoLast

\* post_message (app.py:240-297) up to its first durable call; mid is the id
\* that gen_id8 draws.
PostMessage(tok, payload, mid) ==
    /\ LoopFree
    /\ IF ~AuthOk(tok, now) THEN Refuse("post", tok, 401)
       ELSE IF payload.content = "" THEN Refuse("post", tok, 400)
       ELSE IF payload.content = "!delete"
       THEN IF payload.ids = <<>> THEN Refuse("post", tok, 400)
            ELSE /\ StartDelete("cmd", tok, Head(payload.ids), Tail(payload.ids), <<>>)
                 /\ UNCHANGED <<phase, now, ddb_items, lister, tokens, token_counter,
                                token_last_reset, subscribers, gen, conn>>
       ELSE LET lim == check_and_update_token_limit(
                           token_counter[tok], token_last_reset[tok], now)
                fresh == now - token_last_reset[tok] >= RATE_LIMIT_PERIOD
                nth == Min(hist.tried[tok] + 1, MAX_POSTS_PER_TOKEN + 2)
            IN  /\ token_counter' = [token_counter EXCEPT ![tok] = lim.count]
                /\ token_last_reset' = [token_last_reset EXCEPT ![tok] = lim.last_reset]
                /\ IF ~lim.ok
                   THEN /\ last' = [Reply("post", tok, 429) EXCEPT
                                      !.remaining = get_token_remaining(
                                          lim.count, lim.last_reset, now),
                                      !.nth = nth]
                        /\ hist' = [hist EXCEPT !.tried[tok] = nth]
                        /\ UNCHANGED <<messages, order, queue, call>>
                   ELSE   LET msg == [id |-> mid, content |-> payload.content,
                                      ts |-> now_ms]
                              ord1 == Append(order, mid)
                              msgs1 == [messages EXCEPT ![mid] = msg]
                              over == Overflows(ord1)
                              ord2 == IF over THEN Tail(ord1) ELSE ord1
                              msgs2 == IF over THEN [msgs1 EXCEPT ![Head(ord1)] = NoMsg]
                                       ELSE msgs1
                              c == [op |-> "post", token |-> tok,
                                    event |-> MessageEvent(mid), rest |-> <<>>,
                                    results |-> <<>>]
                          IN  /\ mid \in gen_id8(LiveIds)
                              /\ messages' = msgs2
                              /\ order' = ord2
                              /\ call' = c
                              /\ queue' = IF over THEN Detach(queue, Head(ord1), msgs1)
                                           ELSE queue
                              /\ hist' = Observe([hist EXCEPT
                                    !.tried[tok] = nth,
                                    !.admitted[tok] = IF fresh THEN 1 ELSE @ + 1,
                                    !.appended = IF hist.logged /\ Len(@) < MaxLog
                                                 THEN Append(@, mid) ELSE <<>>,
                                    !.logged = @ /\ Len(hist.appended) < MaxLog],
                                    ord2)
                              /\ last' = NoLast
                /\ UNCHANGED <<phase, now, ddb_items, lister, tokens, subscribers, gen, conn>>

\* A delete_message that passes the limiter first (a fault C15 must detect).
DeleteMessageLimited(tok, mid) ==
    /\ LoopFree
    /\ IF ~AuthOk(tok, now) THEN Refuse("delete", tok, 401)
       ELSE LET lim == check_and_update_token_limit(
                           token_counter[tok], token_last_reset[tok], now)
            IN  /\ token_counter' = [token_counter EXCEPT ![tok] = lim.count]
                /\ token_last_reset' = [token_last_reset EXCEPT ![tok] = lim.last_reset]
                /\ IF lim.ok
                   THEN StartDelete("delete", tok, mid, <<>>, <<>>)
                   ELSE /\ last' = Reply("delete", tok, 429)
                        /\ UNCHANGED <<messages, order, queue, call, hist>>
                /\ UNCHANGED <<phase, now, ddb_items, lister, tokens, subscribers, gen, conn>>

\* delete_message (app.py:300-312) up to the durable call.
DeleteMessage(tok, mid) ==
    /\ LoopFree
    /\ IF ~AuthOk(tok, now) THEN Refuse("delete", tok, 401)
       ELSE /\ StartDelete("delete", tok, mid, <<>>, <<>>)
            /\ UNCHANGED <<phase, now, ddb_items, lister, tokens, token_counter,
                           token_last_reset, subscribers, gen, conn>>

\* ------------------------------------------------------------------------
\* An update that also stamps the message with the time of the update (a
\* fault C18 must detect).
AdminUpdateMessageTouching(authorized, mid, content) ==
    /\ LoopFree
    /\ IF ~authorized THEN Refuse("admin_update", "", 403)
       ELSE IF content = "" THEN Refuse("admin_update", "", 400)
       ELSE IF messages[mid] = NoMsg THEN Refuse("admin_update", "", 404)
       ELSE     /\ messages' = [messages EXCEPT ![mid].content = content,
                                              ![mid].ts = now_ms]
                /\ call' = [op |-> "admin_update", token |-> "",
                            event |-> MessageEvent(mid), rest |-> <<>>,
                            results |-> <<>>]
                /\ UNCHANGED <<phase, now, ddb_items, lister, tokens, token_counter,
                               token_last_reset, order, subscribers,
                               queue, gen, conn, hist>>
                /\ last' = NoLast

\* Admin console.  require_admin (app.py:65-74) compares the bearer token
\* with ADMIN_TOKEN: a request is authorized or it is not.
AdminUpdateMessage(authorized, mid, content) ==
    /\ LoopFree
    /\ IF ~authorized THEN Refuse("admin_update", "", 403)
       ELSE IF content = "" THEN Refuse("admin_update", "", 400)
       ELSE IF messages[mid] = NoMsg THEN Refuse("admin_update", "", 404)
       ELSE     /\ messages' = [messages EXCEPT ![mid].content = content]
                /\ call' = [op |-> "admin_update", token |-> "",
                            event |-> MessageEvent(mid), rest |-> <<>>,
                            results |-> <<>>]
                /\ UNCHANGED <<phase, now, ddb_items, lister, tokens, token_counter,
                               token_last_reset, order, subscribers,
                               queue, gen, conn, hist>>
                /\ last' = NoLast

AdminDeleteMessage(authorized, mid) ==
    /\ LoopFree
    /\ IF ~authorized THEN Refuse("admin_delete", "", 403)
       ELSE /\ StartDelete("admin_delete", "", mid, <<>>, <<>>)
            /\ UNCHANGED <<phase, now, ddb_items, lister, tokens, token_counter,
                           token_last_reset, subscribers, gen, conn>>

\* admin_batch_delete (app.py:393-415): ids is payload.ids without repeats.
AdminBatchDelete(authorized, ids) ==
    /\ LoopFree
    /\ IF ~authorized THEN Refuse("admin_batch", "", 403)
       ELSE IF ids = <<>> THEN Refuse("admin_batch", "", 200)
       ELSE /\ StartDelete("admin_batch", "", Head(ids), Tail(ids), <<>>)
            /\ UNCHANGED <<phase, now, ddb_items, lister, tokens, token_counter,
                           token_last_reset, subscribers, gen, conn>>

\* ------------------------------------------------------------------------
\* A handler without the try/except (a fault C9 must detect).
Uncaught(outcome) == FALSE

\* The durable call returns ("ok", also when ddb_table() is None) or raises.
\* `try: ddb_...(...) except Exception` catches what it raises.
Caught(outcome) == outcome = "raise"


\* A queue nothing refers to any more: its request is over and it is not
\* registered.
Dropped(subs, q) ==
    [s \in Subs |-> IF gen[s] = "closed" /\ s \notin subs THEN <<>> ELSE q[s]]

\* The handler goes on after the durable call: it broadcasts the event, then
\* answers or starts the next round of its loop.
AfterCall(outcome) ==
    LET b == broadcast(call.event, subscribers, queue)
        q1 == Dropped(b.subscribers, b.queue)
        sent == [NoLast EXCEPT !.event = call.event, !.ddb = outcome]
    IN  /\ subscribers' = b.subscribers
        /\ IF call.rest = <<>>
           THEN /\ last' = [sent EXCEPT
                              !.op = call.op, !.token = call.token, !.status = 200,
                              !.remaining =
                                  IF call.op = "post"
                                  THEN get_token_remaining(token_counter[call.token],
                                           token_last_reset[call.token], now)
                                  ELSE -1,
                              !.results = call.results,
                              !.nth = IF call.op = "post" THEN hist.tried[call.token]
                                      ELSE 0]
                /\ call' = NoCall
                /\ queue' = q1
                /\ UNCHANGED <<messages, order, hist>>
           ELSE IF call.op = "cmd" /\ ~AuthOk(call.token, now)
           THEN \* require_auth of the next delete_message raises
                /\ last' = [sent EXCEPT
                              !.op = call.op, !.token = call.token, !.status = 401]
                /\ call' = NoCall
                /\ queue' = q1
                /\ UNCHANGED <<messages, order, hist>>
           ELSE LET mid == Head(call.rest)
                    d == delete_local(messages, order, mid)
                IN  /\ messages' = d.messages
                    /\ order' = d.order
                    /\ call' = [call EXCEPT !.event = DeleteEvent(mid),
                                            !.rest = Tail(call.rest),
                                            !.results = Append(@, d.existed)]
                    /\ queue' = Detach(q1, mid, messages)
                    /\ hist' = Observe(Unlog(hist, d.existed), d.order)
                    /\ last' = sent

\* The exception leaves the handler: a 500, no broadcast.
Propagate(outcome) ==
    /\ last' = [Reply(call.op, call.token, 500) EXCEPT !.ddb = outcome]
    /\ call' = NoCall
    /\ UNCHANGED <<messages, order, subscribers, queue, hist>>

DdbReturn(outcome) ==
    /\ call # NoCall
    /\ IF outcome = "ok" \/ Caught(outcome) THEN AfterCall(outcome)
       ELSE Propagate(outcome)
    /\ UNCHANGED <<phase, now, ddb_items, lister, tokens, token_counter, token_last_reset,
                   gen, conn>>

\* ------------------------------------------------------------------------
\* GET /events (app.py:315-337).  gen[s] is where the generator stands:
\*   "none"     no request yet
\*   "created"  events() returned the StreamingResponse; gen() not started
\*   "hello"    suspended at `yield sse("hello", ...)`, before the try
\*   "waiting"  suspended in wait_for(q.get(), 15), inside the try
\*   "item"     suspended at a yield of the loop (an event or a ping)
\*   "closed"   the generator is over
GenUnchanged ==
    /\ last' = NoLast
    /\ UNCHANGED <<phase, now, ddb_items, lister, tokens, token_counter, token_last_reset,
                   messages, order, call, hist>>

\* events(): a fresh queue, registered under _sub_lock.
Events(s) ==
    /\ LoopFree
    /\ gen[s] = "none"
    /\ subscribers' = subscribers \cup {s}
    /\ gen' = [gen EXCEPT ![s] = "created"]
    /\ conn' = [conn EXCEPT ![s] = "open"]
    /\ UNCHANGED queue
    /\ GenUnchanged

\* The client goes away; the server has not noticed yet.
Disconnect(s) ==
    /\ conn[s] = "open"
    /\ conn' = [conn EXCEPT ![s] = "gone"]
    /\ UNCHANGED <<subscribers, queue, gen>>
    /\ GenUnchanged

\* finally: async with _sub_lock: _subscribers.discard(q)
Discard(s) ==
    /\ subscribers' = subscribers \ {s}
    /\ gen' = [gen EXCEPT ![s] = "closed"]
    /\ queue' = [queue EXCEPT ![s] = <<>>]
    /\ UNCHANGED conn

\* The response iterates the generator: it runs to its next suspension.
GenNext(s) ==
    /\ LoopFree
    /\ gen[s] \in {"created", "hello", "item"}
    /\ IF gen[s] = "created"
       THEN /\ gen' = [gen EXCEPT ![s] = "hello"]
            /\ UNCHANGED <<subscribers, queue, conn>>
       ELSE IF conn[s] = "gone"
       THEN \* request.is_disconnected(): break
            Discard(s)
       ELSE IF queue[s] # <<>>
       THEN /\ queue' = [queue EXCEPT ![s] = Tail(@)]
            /\ gen' = [gen EXCEPT ![s] = "item"]
            /\ UNCHANGED <<subscribers, conn>>
       ELSE /\ gen' = [gen EXCEPT ![s] = "waiting"]
            /\ UNCHANGED <<subscribers, queue, conn>>
    /\ GenUnchanged

\* q.get() returns the event a broadcast put into the queue.
GenGet(s) ==
    /\ LoopFree
    /\ gen[s] = "waiting"
    /\ queue[s] # <<>>
    /\ queue' = [queue EXCEPT ![s] = Tail(@)]
    /\ gen' = [gen EXCEPT ![s] = "item"]
    /\ UNCHANGED <<subscribers, conn>>
    /\ GenUnchanged

\* asyncio.TimeoutError: a ping is yielded.
GenTimeout(s) ==
    /\ LoopFree
    /\ gen[s] = "waiting"
    /\ queue[s] = <<>>
    /\ gen' = [gen EXCEPT ![s] = "item"]
    /\ UNCHANGED <<subscribers, queue, conn>>
    /\ GenUnchanged

\* The server ends the response of a connection that is gone and closes the
\* generator where it stands: the exception is raised at the suspension, and
\* the finally clause runs only when the suspension is inside the try.
GenClose(s) ==
    /\ LoopFree
    /\ conn[s] = "gone"
    /\ gen[s] \in {"created", "hello", "waiting", "item"}
    /\ IF gen[s] \in {"waiting", "item"}
       THEN Discard(s)
       ELSE /\ gen' = [gen EXCEPT ![s] = "closed"]
            /\ UNCHANGED <<subscribers, queue, conn>>
    /\ GenUnchanged

\* ------------------------------------------------------------------------
\* GET /messages (app.py:230-237).  list_messages is a plain `def`: the
\* framework runs it in a threadpool thread, next to the event loop thread
\* that runs the handlers.  The thread can be switched out between any two
\* steps of its loop; a handler is taken to run without being switched out.
ListUnchanged ==
    UNCHANGED <<phase, now, ddb_items, tokens, token_counter, token_last_reset,
                messages, order, subscribers, queue, gen, conn, call>>

\* The event loop hands the request to a thread: items = [], iter(_order).
ListStart ==
    /\ LoopFree
    /\ lister.pc = "idle"
    /\ lister' = [NoList EXCEPT !.pc = "iter"]
    /\ hist' = [hist EXCEPT !.seen = {order}]
    /\ last' = NoLast
    /\ ListUnchanged

\* `for mid in _order`: the list iterator returns _order[idx] and moves on,
\* or ends the loop when idx has reached len(_order).
ListIter ==
    /\ lister.pc = "iter"
    /\ lister' = IF lister.idx < Len(order)
                 THEN [lister EXCEPT !.pc = "got", !.mid = order[lister.idx + 1],
                                     !.idx = @ + 1]
                 ELSE [lister EXCEPT !.pc = "done"]
    /\ last' = NoLast
    /\ UNCHANGED hist
    /\ ListUnchanged

\* msg = _messages.get(mid); if msg: items.append(msg)
ListLookup ==
    /\ lister.pc = "got"
    /\ lister' = [lister EXCEPT
                     !.pc = "iter",
                     !.items = IF messages[lister.mid] # NoMsg
                               THEN Append(@, messages[lister.mid].id) ELSE @]
    /\ last' = NoLast
    /\ UNCHANGED hist
    /\ ListUnchanged

\* return {"ok": True, "items": items}
ListReturn ==
    /\ lister.pc = "done"
    /\ lister' = NoList
    /\ hist' = [hist EXCEPT !.seen = {}]
    /\ last' = Reply("list", "", 200)
    /\ ListUnchanged

\* ------------------------------------------------------------------------
Next ==
    \/ \E outcome \in {"ok", "raise"} : Lifespan(outcome)
    \/ Tick
    \/ \E tok \in Tokens : IssueToken(tok)
    \/ \E tok \in Tokens, payload \in Payloads, mid \in Ids :
          PostMessage(tok, payload, mid)
    \/ \E tok \in Tokens, mid \in Ids : DeleteMessage(tok, mid)
    \/ \E a \in BOOLEAN, mid \in Ids, c \in Contents \cup {""} :
          AdminUpdateMessage(a, mid, c)
    \/ \E a \in BOOLEAN, mid \in Ids : AdminDeleteMessage(a, mid)
    \/ \E a \in BOOLEAN, ids \in IdLists : AdminBatchDelete(a, ids)
    \/ \E outcome \in {"ok", "raise"} : DdbReturn(outcome)
    \/ \E s \in Subs : Events(s)
    \/ \E s \in Subs : Disconnect(s)
    \/ \E s \in Subs : GenNext(s)
    \/ \E s \in Subs : GenGet(s)
    \/ \E s \in Subs : GenTimeout(s)
    \/ \E s \in Subs : GenClose(s)
    \/ ListStart
    \/ ListIter
    \/ ListLookup
    \/ ListReturn

Spec == Init /\ [][Next]_vars

\* ------------------------------------------------------------------------
\* The full system is too large to explore at once; the specifications below
\* run the same actions on parts of the inputs.

\* The least free id: one draw of gen_id8, for the specifications in which
\* the ids play no part.
LeastFree == {i \in Ids \ LiveIds : \A j \in 1..(i - 1) : j \in LiveIds}
NoTable == {f \in Tables : Len(f) = 0}
TextPayloads == {[content |-> c, ids |-> <<>>] : c \in {"hi", ""}}
\* The lists of one or two ids.
ShortLists == {l \in IdLists : Len(l) <= 2}
ShortCmds == {[content |-> "!delete", ids |-> l] : l \in ShortLists}
OneToken == {"t1"}

\* The token authority and the rate limiter under the posts of the clients.
RateInit == InitWith(NoTable)
RateNext ==
    \/ \E outcome \in {"ok", "raise"} : Lifespan(outcome)
    \/ Tick
    \/ \E tok \in Tokens : IssueToken(tok)
    \/ \E tok \in Tokens, payload \in TextPayloads, mid \in LeastFree :
          PostMessage(tok, payload, mid)
    \/ \E outcome \in {"ok", "raise"} : DdbReturn(outcome)
RateSpec == RateInit /\ [][RateNext]_vars

\* The message store under every request that changes it, with every draw
\* of gen_id8, from an empty durable table and from one that holds more live
\* items than RECOVER_LIMIT.  The clock stands still (the store reads it only
\* for the timestamp of a new message) and every text is "hi".
StoreInit == InitWith(SpecTables)
StoreNext ==
    \/ \E outcome \in {"ok", "raise"} : Lifespan(outcome)
    \/ \E tok \in OneToken : IssueToken(tok)
    \/ \E tok \in OneToken, payload \in TextPayloads, mid \in Ids :
          PostMessage(tok, payload, mid)
    \/ \E tok \in OneToken, payload \in ShortCmds : PostMessage(tok, payload, 1)
    \/ \E tok \in OneToken, mid \in Ids : DeleteMessage(tok, mid)
    \/ \E mid \in Ids, c \in {"hi", ""} : AdminUpdateMessage(TRUE, mid, c)
    \/ \E mid \in Ids : AdminDeleteMessage(TRUE, mid)
    \/ \E ids \in ShortLists : AdminBatchDelete(TRUE, ids)
    \/ AdminUpdateMessage(FALSE, 1, "yo")
    \/ AdminDeleteMessage(FALSE, 1)
    \/ AdminBatchDelete(FALSE, <<1>>)
    \/ \E outcome \in {"ok", "raise"} : DdbReturn(outcome)
StoreSpec == StoreInit /\ [][StoreNext]_vars

\* The broadcast hub: two /events requests and the moderation requests that
\* broadcast a "message" and a "delete" event, over the recovered store.
\* The requests name the item scanned last, which recovery keeps.
HubIds == {i \in Ids : i = MaxScan}
HubInit == InitWith(SpecTables)
HubNext ==
    \/ \E outcome \in {"ok", "raise"} : Lifespan(outcome)
    \/ \E mid \in HubIds, c \in {"yo", ""} : AdminUpdateMessage(TRUE, mid, c)
    \/ \E mid \in HubIds : AdminDeleteMessage(TRUE, mid)
    \/ \E outcome \in {"ok", "raise"} : DdbReturn(outcome)
    \/ \E s \in Subs : Events(s)
    \/ \E s \in Subs : Disconnect(s)
    \/ \E s \in Subs : GenNext(s)
    \/ \E s \in Subs : GenGet(s)
    \/ \E s \in Subs : GenTimeout(s)
    \/ \E s \in Subs : GenClose(s)
HubSpec == HubInit /\ [][HubNext]_vars

\* The durable calls: every request that makes one, in front of one /events
\* request that is read while its client stays.  gen_id8 draws the least
\* free id; the deletes name the first ids drawn.
OneSub == {"q1"}
FirstId == {i \in Ids : i = 1}
PairLists == {l \in ShortLists : \A i \in 1..Len(l) : l[i] <= 2}
PairCmds == {[content |-> "!delete", ids |-> l] : l \in PairLists}
DurableInit == InitWith(NoTable)
DurableNext ==
    \/ \E outcome \in {"ok", "raise"} : Lifespan(outcome)
    \/ \E tok \in OneToken : IssueToken(tok)
    \/ \E tok \in OneToken, payload \in TextPayloads, mid \in LeastFree :
          PostMessage(tok, payload, mid)
    \/ \E tok \in OneToken, payload \in PairCmds : PostMessage(tok, payload, 1)
    \/ \E tok \in OneToken, mid \in FirstId : DeleteMessage(tok, mid)
    \/ \E mid \in FirstId, c \in {"yo", ""} : AdminUpdateMessage(TRUE, mid, c)
    \/ \E mid \in FirstId : AdminDeleteMessage(TRUE, mid)
    \/ \E ids \in PairLists : AdminBatchDelete(TRUE, ids)
    \/ \E outcome \in {"ok", "raise"} : DdbReturn(outcome)
    \/ \E s \in OneSub : Events(s)
    \/ \E s \in OneSub : GenNext(s)
    \/ \E s \in OneSub : GenGet(s)
DurableSpec == DurableInit /\ [][DurableNext]_vars

\* GET /messages next to the posts and deletes that change the store.
\* gen_id8 draws the least free id.
ListInit == InitWith(NoTable)
ListNext ==
    \/ \E outcome \in {"ok", "raise"} : Lifespan(outcome)
    \/ \E tok \in OneToken : IssueToken(tok)
    \/ \E tok \in OneToken, payload \in TextPayloads, mid \in LeastFree :
          PostMessage(tok, payload, mid)
    \/ \E mid \in Ids : AdminDeleteMessage(TRUE, mid)
    \/ \E outcome \in {"ok", "raise"} : DdbReturn(outcome)
    \/ ListStart
    \/ ListIter
    \/ ListLookup
    \/ ListReturn
ListSpec == ListInit /\ [][ListNext]_vars

\* The limiter alone (app.py:77-90), as post_message calls it at app.py:265:
\* one admission check on the record of a token.
CheckLimit(tok) ==
    LET lim == check_and_update_token_limit(
                   token_counter[tok], token_last_reset[tok], now)
    IN  /\ token_counter' = [token_counter EXCEPT ![tok] = lim.count]
        /\ token_last_reset' = [token_last_reset EXCEPT ![tok] = lim.last_reset]
        /\ last' = Reply("limit", tok, IF lim.ok THEN 200 ELSE 429)
        /\ UNCHANGED <<phase, now, ddb_items, lister, tokens, messages, order,
                       subscribers, queue, gen, conn, call, hist>>

\* Every token has a window, started when the clock stood at Now0, with any
\* count the limiter can leave.
LimiterInit ==
    /\ phase = "boot"
    /\ now = Now0
    /\ ddb_items = <<>>
    /\ tokens = [t \in Tokens |-> 0]
    /\ token_counter \in [Tokens -> 0..MAX_POSTS_PER_TOKEN]
    /\ token_last_reset = [t \in Tokens |-> Now0]
    /\ messages = [i \in Ids |-> NoMsg]
    /\ order = <<>>
    /\ subscribers = {}
    /\ queue = [s \in Subs |-> <<>>]
    /\ gen = [s \in Subs |-> "none"]
    /\ conn = [s \in Subs |-> "none"]
    /\ call = NoCall
    /\ lister = NoList
    /\ last = NoLast
    /\ hist = NoHist
LimiterNext ==
    \/ Tick
    \/ \E tok \in Tokens : CheckLimit(tok)
LimiterSpec == LimiterInit /\ [][LimiterNext]_vars

\* Startup recovery alone, from every durable table of at most MaxScan items.
RecoverInit == InitWith(Tables)
RecoverNext == \E outcome \in {"ok", "raise"} : Lifespan(outcome)
RecoverSpec == RecoverInit /\ [][RecoverNext]_vars

\* ========================================================================
\* Properties.

\* C1: no token gets more than MAX_POSTS_PER_TOKEN ordinary messages admitted
\* inside one window, counting from the admission that started the window:
\* after that many admissions the next post inside the window is rejected.
C1_AtMostQuotaPerWindow ==
    \A t \in Tokens : hist.admitted[t] <= MAX_POSTS_PER_TOKEN

\* ------------------------------------------------------------------------
\* Which events a queue holds, in order.
Published(ev) == <<ev.event, ev.id>>
Sent(q) == [k \in 1..Len(q) |-> Published(q[k])]
\* a is what is left of b after reading some of it from the head.
IsRest(a, b) == \E k \in 0..Len(b) : a = SubSeq(b, k + 1, Len(b))

\* C2: in every step that broadcasts an event, a registered subscriber whose
\* queue is full leaves the registry and gets nothing; every registered
\* subscriber whose queue has room stays and gets the event once, behind what
\* its queue held; a subscriber that is not registered gets nothing.  In the
\* other steps no queue gets anything, and only a new request registers: a
\* subscriber that was removed never gets a later event.
C2_Broadcast ==
    \A s \in Subs :
        IF last'.event # NoEvent
        THEN /\ (s \in subscribers /\ Len(queue[s]) >= QUEUE_MAXSIZE)
                  => s \notin subscribers' /\ IsRest(Sent(queue'[s]), Sent(queue[s]))
             /\ (s \in subscribers /\ Len(queue[s]) < QUEUE_MAXSIZE)
                  => /\ s \in subscribers'
                     /\ Sent(queue'[s]) = Append(Sent(queue[s]), Published(last'.event))
             /\ s \notin subscribers
                  => s \notin subscribers' /\ IsRest(Sent(queue'[s]), Sent(queue[s]))
        ELSE /\ IsRest(Sent(queue'[s]), Sent(queue[s]))
             /\ (s \in subscribers' /\ s \notin subscribers) => gen[s] = "none"
C2_FullRemovedOthersServed == [][C2_Broadcast]_vars

\* A broadcast has just removed one subscriber, whose request goes on with a
\* full queue, and put its event into the queue of the other one.
C2_Witness ==
    \E s, o \in Subs :
        /\ last.event # NoEvent
        /\ s \notin subscribers /\ gen[s] \in {"hello", "waiting", "item"}
        /\ Len(queue[s]) = QUEUE_MAXSIZE
        /\ Published(Last(queue[s])) # Published(last.event)
        /\ o \in subscribers /\ queue[o] # <<>>
        /\ Published(Last(queue[o])) = Published(last.event)

\* C3: a request whose generator is over has its queue out of the registry,
\* wherever the generator stood when its connection ended.
C3_ReleasedOnEveryExit ==
    \A s \in Subs : gen[s] = "closed" => s \notin subscribers

\* C4: _order never holds more than MAX_IN_MEMORY ids.
C4_OrderWithinCapacity == Len(order) <= MAX_IN_MEMORY

\* The store was empty when the process began to serve.
StartedEmpty == phase = "skipped" \/ (phase = "recovered" /\ ddb_recover(ddb_items) = <<>>)

\* C5: from an empty store and while nothing was removed, the store lists
\* the MAX_IN_MEMORY most recently appended messages (all of them while there
\* are fewer), oldest first, and holds no other: an append beyond capacity
\* evicts the oldest entry and nothing else.
C5_KeepsNewest ==
    (StartedEmpty /\ hist.logged)
    => /\ [k \in 1..Len(list_messages) |-> list_messages[k].id]
             = LastN(hist.appended, MAX_IN_MEMORY)
       /\ Len(list_messages) = Cardinality(LiveIds)

\* More than MAX_IN_MEMORY messages were appended to the empty store.
C5_Witness ==
    /\ StartedEmpty /\ hist.logged /\ call = NoCall
    /\ Len(hist.appended) > MAX_IN_MEMORY

\* C6: the store never holds two messages with one id: _order names every
\* held message once, and each message is stored under its own id.
C6_NoTwoWithOneId ==
    /\ \A i, j \in 1..Len(order) : i # j => order[i] # order[j]
    /\ Range(order) = LiveIds
    /\ \A i \in LiveIds : messages[i].id = i

\* A post was admitted into a full store after a delete and a later post.
C6_Witness ==
    /\ last.op = "post" /\ last.status = 200
    /\ ~hist.logged
    /\ Len(order) = MAX_IN_MEMORY

\* C7: after a recovery the store holds min(RECOVER_LIMIT, n) of the n
\* scanned items that are not flagged deleted, none of them older than an
\* item left out, in ascending timestamp order; _order and _messages hold
\* the same ids.
C7_RecoversNewest ==
    phase = "recovered" =>
        LET kept == {i \in 1..Len(ddb_items) : ~ddb_items[i].deleted}
            n == Cardinality(kept)
        IN  /\ Len(order) = Min(RECOVER_LIMIT, n)
            /\ \A i, j \in 1..Len(order) : i # j => order[i] # order[j]
            /\ Range(order) = LiveIds
            /\ \A k \in 1..Len(order) :
                  \E i \in kept :
                      /\ ddb_items[i].id = order[k]
                      /\ messages[order[k]] =
                            [id |-> ddb_items[i].id, content |-> ddb_items[i].content,
                             ts |-> ddb_items[i].ts]
            /\ \A k, l \in 1..Len(order) :
                  k < l => messages[order[k]].ts <= messages[order[l]].ts
            /\ \A i \in kept :
                  ddb_items[i].id \notin Range(order)
                      => \A k \in 1..Len(order) : ddb_items[i].ts <= messages[order[k]].ts

\* A recovery left out an older item: the table holds more live items than
\* RECOVER_LIMIT, of both timestamps and not scanned in their order.
C7_Witness ==
    /\ phase = "recovered"
    /\ Cardinality({i \in 1..Len(ddb_items) : ~ddb_items[i].deleted}) > RECOVER_LIMIT
    /\ \E i \in 2..Len(ddb_items) : ddb_items[i].ts < ddb_items[i - 1].ts
    /\ \E i \in 1..Len(ddb_items) :
          /\ ~ddb_items[i].deleted /\ ddb_items[i].id \notin Range(order)
          /\ \E k \in 1..Len(order) : ddb_items[i].ts < messages[order[k]].ts

\* C8: with a freshly issued token the answer to the first successful post
\* reports remaining = 4, and the sixth consecutive post inside the window is
\* rejected with a rate-limit error that reports remaining = 0.
C8_FirstFourSixthRejected ==
    (/\ last.op = "post"
     /\ last.status \in {200, 429}
     /\ now - token_last_reset[last.token] < RATE_LIMIT_PERIOD)
    => /\ (last.nth = 1 /\ last.status = 200
             => last.remaining = MAX_POSTS_PER_TOKEN - 1)
       /\ (last.nth = MAX_POSTS_PER_TOKEN + 1
             => last.status = 429 /\ last.remaining = 0)

\* C9: when the durable call of a post, delete, update or batch delete
\* raises, the mutation the handler made stays, the event is broadcast to
\* every registered subscriber whose queue has room, and the request is not
\* answered with an error the call caused.
C9_AfterFailure ==
    last'.ddb = "raise" =>
        /\ call # NoCall
        /\ last'.event = call.event
        /\ IF call.event.event = "delete"
           THEN messages'[call.event.id] = NoMsg
           ELSE /\ messages[call.event.id] # NoMsg
                /\ messages'[call.event.id] = messages[call.event.id]
        /\ call.rest = <<>> => messages' = messages /\ order' = order
        /\ \A s \in subscribers :
              Len(queue[s]) < QUEUE_MAXSIZE
                  => Sent(queue'[s]) = Append(Sent(queue[s]), Published(call.event))
        /\ last'.status \in {0, 200, 401}
        /\ last'.status = 0 => call.rest # <<>>
        /\ last'.status = 401 => call.op = "cmd" /\ ~AuthOk(call.token, now)
        /\ last'.status = 200 => last'.results = call.results
C9_FailureIsolated == [][C9_AfterFailure]_vars

\* The durable call of a post raised: the post was answered 200 and its
\* event is the last one in the subscriber's queue.
C9_Witness ==
    /\ last.ddb = "raise" /\ last.op = "post" /\ last.status = 200
    /\ messages[last.event.id] # NoMsg
    /\ \E s \in subscribers :
          queue[s] # <<>> /\ Published(Last(queue[s])) = Published(last.event)

\* C10: while the durable call of a post or delete has not returned, the
\* event of the request is already in the queue of every registered
\* subscriber, and the generators of the /events requests can run.
C10_NotHeldByDurableWrite ==
    (call # NoCall /\ call.op \in {"post", "delete"}) =>
        /\ \A s \in subscribers :
              \E k \in 1..Len(queue[s]) : Published(queue[s][k]) = Published(call.event)
        /\ \A s \in OneSub : gen[s] = "created" => ENABLED GenNext(s)

\* ------------------------------------------------------------------------
\* C11: in the step that answers a delete of id X, X is neither in _order nor
\* in _messages, the list does not show it, the event broadcast is the
\* "delete" event of X, and every registered subscriber whose queue had room
\* got it.
C11_AfterDelete ==
    (last'.status = 200 /\ last'.op \in {"delete", "admin_delete"}) =>
        LET X == last'.event.id
        IN  /\ last'.event = DeleteEvent(X)
            /\ messages'[X] = NoMsg
            /\ \A k \in 1..Len(order') : order'[k] # X
            /\ \A k \in 1..Len(list_messages') : list_messages'[k].id # X
            /\ \A s \in subscribers :
                  Len(queue[s]) < QUEUE_MAXSIZE
                      => Sent(queue'[s]) = Append(Sent(queue[s]), <<"delete", X>>)
C11_DeletedAndAnnounced == [][C11_AfterDelete]_vars

\* A delete of a live id was answered and its event is the last one in the
\* queue of a registered subscriber.
C11_Witness ==
    /\ last.op = "delete" /\ last.status = 200 /\ last.results = <<TRUE>>
    /\ \E s \in subscribers :
          queue[s] # <<>> /\ Last(queue[s]) = DeleteEvent(last.event.id)

\* A step in which _delete_local ran: a handler entered the durable call of a
\* delete.
Removes == call' # NoCall /\ call' # call /\ call'.event.event = "delete"

\* C12: a _delete_local of a held id reports True and removes it from
\* _messages and _order and nothing else; a _delete_local of an id that is
\* not held reports False and leaves the store as it is.  So a second remove
\* right after the answer to a first one reports False and changes nothing.
C12_RemoveStep ==
    Removes =>
        LET X == call'.event.id
            existed == Last(call'.results)
        IN  /\ existed = (messages[X] # NoMsg)
            /\ messages' = [messages EXCEPT ![X] = NoMsg]
            /\ X \notin Range(order')
            /\ ~existed => order' = order
            /\ existed => Len(order') = Len(order) - 1
            /\ (/\ last.status = 200 /\ last.op \in {"delete", "admin_delete"}
                /\ last.event.id = X)
                  => ~existed /\ messages' = messages /\ order' = order
C12_RemoveIdempotent == [][C12_RemoveStep]_vars

\* A recovered id is removed again: no post was made since startup, so it was
\* held until a first remove, and the second one reports False.
C12_Witness ==
    /\ phase = "recovered"
    /\ \A t \in Tokens : hist.tried[t] = 0
    /\ call.op = "admin_delete" /\ call.results = <<FALSE>>
    /\ call.event.id \in Range(SeedOrder(ddb_recover(ddb_items)))

\* C13: every id occurs in _order once if _messages holds it and not at all
\* if it does not.
C13_OrderMatchesMapping ==
    \A i \in Ids :
        Cardinality({k \in 1..Len(order) : order[k] = i})
            = IF messages[i] # NoMsg THEN 1 ELSE 0

\* After a recovery, a post, a remove and an update: the store holds a
\* recovered message and a posted one.
C13_Witness ==
    /\ phase = "recovered" /\ ddb_items # <<>>
    /\ ~hist.logged
    /\ last.op = "admin_update" /\ last.status = 200
    /\ Len(order) = MAX_IN_MEMORY
    /\ \E k \in 1..Len(order) : messages[order[k]].ts = now_ms
    /\ \E k \in 1..Len(order) : messages[order[k]].ts < now_ms

\* ------------------------------------------------------------------------
\* C14: an admission check on a token whose window started RATE_LIMIT_PERIOD
\* or longer ago is accepted and leaves count 0 and the window start at now;
\* a check that is rejected leaves count and window start as they were.
C14_CheckStep ==
    \A tok \in Tokens :
        (last'.op = "limit" /\ last'.token = tok) =>
            /\ now - token_last_reset[tok] >= RATE_LIMIT_PERIOD
                  => /\ last'.status = 200
                     /\ token_counter'[tok] = 0
                     /\ token_last_reset'[tok] = now
            /\ last'.status = 429
                  => /\ token_counter' = token_counter
                     /\ token_last_reset' = token_last_reset
C14_ResetAndReject == [][C14_CheckStep]_vars

\* The first check after the end of a window: the window now starts at now,
\* RATE_LIMIT_PERIOD after the old one, with count 0; the other token was
\* rejected in its old window and keeps its full count.
C14_Witness ==
    \E tok, other \in Tokens :
        /\ last.op = "limit" /\ last.token = tok /\ last.status = 200
        /\ now = Now0 + RATE_LIMIT_PERIOD
        /\ token_last_reset[tok] = now /\ token_counter[tok] = 0
        /\ token_last_reset[other] = Now0
        /\ token_counter[other] = MAX_POSTS_PER_TOKEN

\* ------------------------------------------------------------------------
\* The requests that delete or moderate: a step of one of them enters a
\* durable call or answers.
Moderation == {"cmd", "delete", "admin_update", "admin_delete", "admin_batch"}

\* C15: no step of a "!delete" command, a delete, or a privileged update,
\* delete or batch delete changes the count or the window start of any
\* token, and none of them is answered with the rate-limit error.
C15_ModerationStep ==
    (call'.op \in Moderation \/ last'.op \in Moderation) =>
        /\ token_counter' = token_counter
        /\ token_last_reset' = token_last_reset
        /\ last'.status # 429
C15_LimiterUntouched == [][C15_ModerationStep]_vars

\* A token whose quota is exhausted has deleted a message.
C15_Witness ==
    \E tok \in Tokens :
        /\ token_counter[tok] = MAX_POSTS_PER_TOKEN
        /\ now - token_last_reset[tok] < RATE_LIMIT_PERIOD
        /\ last.op \in {"delete", "cmd"} /\ last.token = tok
        /\ last.status = 200 /\ last.results = <<TRUE>>

\* ------------------------------------------------------------------------
\* C16: what a queued "message" event delivers is fixed when it is
\* published: an update of its message to any content, made now, leaves what
\* the queued event delivers as it is.
C16_QueuedEventIsACopy ==
    \A s \in Subs :
        \A k \in 1..Len(queue[s]) :
            LET ev == queue[s][k]
            IN  (ev.event = "message" /\ messages[ev.id] # NoMsg) =>
                    \A c \in Contents :
                        Data(ev, [messages EXCEPT ![ev.id].content = c])
                            = Data(ev, messages)

\* ------------------------------------------------------------------------
\* C17: the ids a list_messages call returns are, in order, the ids _order
\* held at one instant between the start and the end of the call.
C17_ListIsASnapshot == lister.pc = "done" => lister.items \in hist.seen

\* ------------------------------------------------------------------------
\* C18: a privileged update that goes through names a held id and changes
\* the content of that message and nothing else in the store: its id, its
\* timestamp, _order and every other message stay; when it is answered, the
\* store stays as it is.  An update answered 404 changes nothing and
\* broadcasts nothing.
C18_UpdateStep ==
    /\ (call = NoCall /\ call'.op = "admin_update") =>
          LET X == call'.event.id
          IN  /\ messages[X] # NoMsg
              /\ messages'[X].id = messages[X].id
              /\ messages'[X].ts = messages[X].ts
              /\ messages'[X].content \in Contents
              /\ \A i \in Ids \ {X} : messages'[i] = messages[i]
              /\ order' = order
    /\ (last'.op = "admin_update" /\ last'.status = 200) =>
          /\ messages' = messages /\ order' = order
          /\ last'.event = MessageEvent(call.event.id)
    /\ (last'.op = "admin_update" /\ last'.status = 404) =>
          /\ last'.event = NoEvent
          /\ UNCHANGED <<messages, order, subscribers, queue, call,
                         token_counter, token_last_reset, tokens>>
C18_UpdateChangesContentOnly == [][C18_UpdateStep]_vars

\* An update of a recovered message was answered: the message has the new
\* content and its recovered timestamp, next to the other recovered
\* messages, and its place in _order.
C18_Witness ==
    /\ last.op = "admin_update" /\ last.status = 200
    /\ phase = "recovered"
    /\ order = SeedOrder(ddb_recover(ddb_items))
    /\ Len(order) = RECOVER_LIMIT
    /\ messages[last.event.id].content = "yo"
    /\ messages[last.event.id].ts < now_ms
    /\ \E i \in LiveIds : messages[i].content = "hi"

\* ------------------------------------------------------------------------
\* C19: from the append of a post to the enqueue of its event nothing else
\* happens to the store or to the queues: the appended id is the last one of
\* _order, _order and _messages stay as they are until the handler goes on,
\* and its next step broadcasts the event of that id.  So the events of two
\* posts reach every queue in the order of their appends.
C19_PostStep ==
    /\ (call = NoCall /\ call'.op = "post") =>
          /\ order' # <<>> /\ Last(order') = call'.event.id
          /\ call'.event = MessageEvent(call'.event.id)
    /\ call.op = "post" =>
          /\ order' = order /\ messages' = messages
          /\ \/ call' = call /\ queue' = queue /\ subscribers' = subscribers
             \/ /\ call' = NoCall
                /\ last'.op = "post" /\ last'.event = call.event
                /\ \A s \in subscribers :
                      Len(queue[s]) < QUEUE_MAXSIZE
                          => Sent(queue'[s]) = Append(Sent(queue[s]), Published(call.event))
C19_EventsInAppendOrder == [][C19_PostStep]_vars

\* Two posts were appended and the queue of a subscriber holds their events
\* in that order.
C19_Witness ==
    /\ hist.logged /\ Len(hist.appended) = 2 /\ order = hist.appended
    /\ order[1] # order[2]
    /\ \E s \in subscribers :
          queue[s] = <<MessageEvent(order[1]), MessageEvent(order[2])>>

\* ------------------------------------------------------------------------
\* C20: the step in which a post appends its message, and evicts the oldest
\* one when the store overflows, puts nothing into any queue; the step in
\* which the post is answered broadcasts one event, the "message" event of
\* the appended id, and every queue gets that event or nothing: no "delete"
\* event for the evicted id is published.
C20_PostPublishes ==
    /\ (call = NoCall /\ call'.op = "post") =>
          /\ subscribers' = subscribers
          /\ \A s \in Subs : Sent(queue'[s]) = Sent(queue[s])
    /\ (call.op = "post" /\ call' = NoCall) =>
          /\ last'.event = MessageEvent(Last(order))
          /\ \A s \in Subs :
                \/ Sent(queue'[s]) = Sent(queue[s])
                \/ Sent(queue'[s]) = Append(Sent(queue[s]), <<"message", Last(order)>>)
C20_EvictionIsSilent == [][C20_PostPublishes]_vars

\* A post that evicted the first message appended was answered: the store
\* does not hold that id any more, and a subscriber that was sent no "delete"
\* event got the "message" event of the new id.
C20_Witness ==
    /\ last.op = "post" /\ last.status = 200
    /\ hist.logged /\ Len(hist.appended) = MAX_IN_MEMORY + 1
    /\ messages[hist.appended[1]] = NoMsg
    /\ \E s \in subscribers :
          /\ queue[s] # <<>> /\ Last(queue[s]) = MessageEvent(Last(order))
          /\ \A k \in 1..Len(queue[s]) : queue[s][k].event = "message"

=============================================================================
